---- MODULE Spec2Model ----
(***************************************************************************)
(* pyxray: value objects (descriptor.py) and the SQL identifier resolvers  *)
(* (sql/base.py).                                                          *)
(*                                                                         *)
(* Python values are modelled structurally:                                *)
(*   subshell triple      <<n, l, j_n>>                                    *)
(*   transition fields    <<n0, l0, j0_n, n1, l1, j1_n>>                   *)
(*   requested item       [rep |-> "obj" | "pair", q |-> transition fields]*)
(*                        [rep |-> "str", s |-> <<"K", "-", "L", "2">>]    *)
(*     "obj"  : an XrayTransition instance holding the six fields          *)
(*     "pair" : a tuple ((n0, l0, j0_n), (n1, l1, j1_n))                   *)
(*     "str"  : a str, the characters in s                                 *)
(*   Python value         [kind |-> "int", v |-> 1], [kind |-> "None"],    *)
(*                        [kind |-> "seq", type |-> "tuple" | "list",      *)
(*                         q |-> <<1, 0, 1>>],                             *)
(*                        [kind |-> "str", s |-> <<"e", "n">>],            *)
(*                        [kind |-> "AtomicSubshell", q |-> <<1, 0, 1>>]   *)
(*     wherever values of several Python types can meet in one place       *)
(* The interpreter is the one the package was written for (3.7 - 3.9),     *)
(* where collections.Sequence is collections.abc.Sequence.                 *)
(***************************************************************************)
EXTENDS Integers, Sequences, FiniteSets, TLC

VARIABLES
    store,            \* rows of xray_transitionset with their member transitions
    arg,              \* the xraytransitionset argument of the running call
    pc,               \* position inside _select_xray_transitionset
    xraytransitions,  \* base.py:128 local set
    todo,             \* items the for loop of base.py:143 has not visited yet
    i,                \* enumerate index of base.py:143
    possibilities,    \* base.py:142 local set of (id, count) rows
    nqueries,         \* number of cur.execute calls made so far
    builder,          \* the caller's SelectBuilder
    outcome,          \* "none" | "ok" | name of the exception that escaped
    src,              \* descriptor: last AtomicSubshell(...) call for the source
    dst,              \* descriptor: last AtomicSubshell(...) call for the destination
    rad,              \* descriptor: last is_radiative(src, dst) call
    call,             \* name of the constructor or resolver that was called
    made,             \* descriptor: what the constructor call produced
    open_cursors      \* cursors opened on the connection and not closed

vars == <<store, arg, pc, xraytransitions, todo, i, possibilities, nqueries,
          builder, outcome, src, dst, rad, call, made, open_cursors>>

matcherVars == <<store, arg, pc, xraytransitions, todo, i, possibilities,
                 nqueries, builder, outcome, open_cursors>>
descriptorVars == <<src, dst, rad>>
objectVars == <<call, made>>

\* ---------------------------------------------------------------- bounds
MaxSets == 2      \* stored xray_transitionset rows
MaxReq == 2       \* length of a requested sequence
MaxN == 4         \* largest principal quantum number tried
MaxQ == 2         \* largest principal quantum number given to a resolver
MaxLen == 3       \* longest string given to a resolver
ZMargin == 2      \* atomic numbers tried on each side of the accepted range

Abs(x) == IF x < 0 THEN 0 - x ELSE x

Range(s) == {s[k] : k \in 1..Len(s)}

\* ------------------------------------------------------- descriptor.py
\* AtomicSubshell.__post_init__: TRUE when construction succeeds,
\* FALSE when it raises ValueError.
AtomicSubshell_post_init(n, l, j_n) ==
    LET lmin == 0
        lmax == n - 1
        jmin_n == Abs(2 * l - 1)        \* 2 * abs(l - 0.5)
        jmax_n == Abs(2 * l + 1)        \* 2 * abs(l + 0.5)
    IN  /\ ~(l < lmin \/ l > lmax)
        /\ ~(j_n < jmin_n \/ j_n > jmax_n)

\* XrayTransition.source_subshell / destination_subshell: the property
\* constructs an AtomicSubshell from three stored fields, so it raises
\* ValueError when they violate AtomicSubshell.__post_init__.
source_subshell_ok(q) == AtomicSubshell_post_init(q[1], q[2], q[3])
destination_subshell_ok(q) == AtomicSubshell_post_init(q[4], q[5], q[6])

\* electric_dipole_permitted with the sign of the change of l kept
electric_dipole_permitted_Signed(n0, l0, j0_n, n1, l1, j1_n) ==
    LET delta_j_n == Abs(j1_n - j0_n)
    IN  IF delta_j_n > 2 THEN "False"
        ELSE IF ~(delta_j_n = 0 \/ delta_j_n = 2) THEN "AssertionError"
        ELSE IF l1 - l0 = 1 THEN "True" ELSE "False"

\* XrayTransition.is_radiative, nested function electric_dipole_permitted:
\* "True", "False", or "AssertionError" when its assert fails.
electric_dipole_permitted(n0, l0, j0_n, n1, l1, j1_n) ==
    LET delta_j_n == Abs(j1_n - j0_n)
    IN  IF delta_j_n > 2 THEN "False"
        ELSE IF ~(delta_j_n = 0 \/ delta_j_n = 2) THEN "AssertionError"
        ELSE IF Abs(l1 - l0) = 1 THEN "True" ELSE "False"

\* electric_quadrupole_permitted without the j = 1/2 -> j = 1/2 exclusion
electric_quadrupole_permitted_NoHalfRule(n0, l0, j0_n, n1, l1, j1_n) ==
    LET delta_j_n == Abs(j1_n - j0_n)
        delta_l == Abs(l1 - l0)
    IN  IF delta_j_n > 4 THEN "False"
        ELSE IF ~(delta_j_n = 0 \/ delta_j_n = 2 \/ delta_j_n = 4) THEN "AssertionError"
        ELSE IF delta_l = 0 \/ delta_l = 2 THEN "True" ELSE "False"

\* XrayTransition.is_radiative, nested function electric_quadrupole_permitted
electric_quadrupole_permitted(n0, l0, j0_n, n1, l1, j1_n) ==
    LET delta_j_n == Abs(j1_n - j0_n)
        delta_l == Abs(l1 - l0)
    IN  IF delta_j_n > 4 THEN "False"
        ELSE IF j0_n = 1 /\ j1_n = 1 THEN "False"
        ELSE IF ~(delta_j_n = 0 \/ delta_j_n = 2 \/ delta_j_n = 4) THEN "AssertionError"
        ELSE IF delta_l = 0 \/ delta_l = 2 THEN "True" ELSE "False"

\* XrayTransition.is_radiative(source_subshell, destination_subshell) on two
\* constructed subshells <<n, l, j_n>>; assertions are enabled.
is_radiative(source_subshell, destination_subshell) ==
    LET n0 == source_subshell[1]
        l0 == source_subshell[2]
        j0_n == source_subshell[3]
        n1 == destination_subshell[1]
        l1 == destination_subshell[2]
        j1_n == destination_subshell[3]
        dipole == electric_dipole_permitted(n0, l0, j0_n, n1, l1, j1_n)
        quadrupole == electric_quadrupole_permitted(n0, l0, j0_n, n1, l1, j1_n)
    IN  IF n0 = n1 THEN "False"
        ELSE IF dipole = "AssertionError" THEN "AssertionError"
        ELSE IF dipole = "True" THEN "True"           \* "or" short-circuits
        ELSE quadrupole

\* Python values of several types that can meet in one field or argument
PyNone == [kind |-> "None"]
PyInt(v) == [kind |-> "int", v |-> v]
PyTuple(q) == [kind |-> "seq", type |-> "tuple", q |-> q]   \* tuple of ints
PyList(q) == [kind |-> "seq", type |-> "list", q |-> q]     \* list of ints
PyStr(s) == [kind |-> "str", s |-> s]               \* s: sequence of characters
AtomicSubshellObj(q) == [kind |-> "AtomicSubshell", q |-> q]

\* Element.__post_init__ with the bounds themselves rejected
Element_post_init_Strict(atomic_number) ==
    ~(atomic_number <= 1 \/ atomic_number >= 118)

\* Element.__post_init__: TRUE when construction succeeds, FALSE when it
\* raises ValueError.
Element_post_init(atomic_number) ==
    ~(atomic_number < 1 \/ atomic_number > 118)

\* XrayTransition.__post_init__ on the six fields the dataclass __init__
\* stored: the fields the instance holds afterwards.  Nothing is raised:
\* arguments of any other shape stay in the fields as given.
XrayTransition_post_init(f) ==
    IF f[1].kind = "seq" /\ f[2].kind = "seq"
    THEN <<PyInt(f[1].q[1]), PyInt(f[1].q[2]), PyInt(f[1].q[3]),
           PyInt(f[2].q[1]), PyInt(f[2].q[2]), PyInt(f[2].q[3])>>
    ELSE IF f[1].kind = "AtomicSubshell" /\ f[2].kind = "AtomicSubshell"
    THEN <<PyInt(f[1].q[1]), PyInt(f[1].q[2]), PyInt(f[1].q[3]),
           PyInt(f[2].q[1]), PyInt(f[2].q[2]), PyInt(f[2].q[3])>>
    ELSE f

\* XrayTransition(*args): the generated __init__ fills the fields that were
\* not given with the default None, then runs __post_init__.
XrayTransition_init(args) ==
    XrayTransition_post_init(
        [k \in 1..6 |-> IF k <= Len(args) THEN args[k] ELSE PyNone])

\* the generated __eq__ of the frozen dataclass compares the six fields, and
\* the generated __hash__ hashes the same six fields
XrayTransition_eq(a, b) == a = b

\* the generated __hash__ hashes the tuple of the six fields: a field that
\* still holds a list makes it raise TypeError
XrayTransition_hashable(fields) ==
    \A k \in 1..6 : ~(fields[k].kind = "seq" /\ fields[k].type = "list")

\* descriptor.py:202-205: an item that is not an XrayTransition instance is
\* unpacked into the constructor
Coerce(transition) ==
    IF transition.kind = "XrayTransition" THEN transition.fields
    ELSE XrayTransition_init(transition.args)

\* tuple(a_set): the members in one of the iteration orders of the set
Orders(S) == { sq \in [1..Cardinality(S) -> S] : {sq[k] : k \in 1..Cardinality(S)} = S }

\* XrayTransitionSet.__post_init__ collecting into a list instead of a set
XrayTransitionSet_post_init_List(input) ==
    IF Len(input) = 0 THEN {[raised |-> "ValueError", possible_transitions |-> <<>>]}
    ELSE {[raised |-> "none",
           possible_transitions |-> [k \in 1..Len(input) |-> Coerce(input[k])]]}

\* XrayTransitionSet.__post_init__: every result the call can have, over the
\* iteration orders of the local set.
XrayTransitionSet_post_init(input) ==
    LET possible_transitions == { Coerce(input[k]) : k \in 1..Len(input) }
    IN  IF \E t \in possible_transitions : ~XrayTransition_hashable(t)
        THEN {[raised |-> "TypeError", possible_transitions |-> <<>>]}  \* set.add
        ELSE IF possible_transitions = {}
        THEN {[raised |-> "ValueError", possible_transitions |-> <<>>]}
        ELSE {[raised |-> "none", possible_transitions |-> o]
                : o \in Orders(possible_transitions)}

\* the generated __eq__ / __hash__ of XrayTransitionSet compare / hash its one
\* field, the tuple
XrayTransitionSet_eq(a, b) == a.possible_transitions = b.possible_transitions

\* str.lower() on the characters of the model's alphabet
LowerChar(c) == CASE c = "E" -> "e" [] c = "N" -> "n" [] OTHER -> c
Lower(s) == [k \in 1..Len(s) |-> LowerChar(s[k])]

\* Language.__post_init__: the stored code, or ValueError
Language_post_init(code) ==
    LET lencode == Len(code)
    IN  IF lencode < 2 \/ lencode > 3
        THEN [raised |-> "ValueError", code |-> <<>>]
        ELSE [raised |-> "none", code |-> Lower(code)]

\* Notation.__post_init__: the stored name, or ValueError
Notation_post_init(name) ==
    IF Len(name) = 0
    THEN [raised |-> "ValueError", name |-> <<>>]
    ELSE [raised |-> "none", name |-> Lower(name)]

\* the optional fields of Reference, all None by default
OptionalFields ==
    {"author", "year", "title", "type", "booktitle", "editor", "pages",
     "edition", "journal", "school", "address", "url", "note", "number",
     "series", "volume", "publisher", "organization", "chapter",
     "howpublished", "doi"}

\* Reference(bibtexkey, **given): given maps some optional fields to strings
Reference_init(bibtexkey, given) ==
    [bibtexkey |-> bibtexkey,
     optional |-> [f \in OptionalFields |->
                     IF f \in DOMAIN given THEN given[f] ELSE PyNone]]

\* the generated __eq__ / __hash__ of Reference cover all 22 fields
Reference_eq(a, b) == a = b

\* the generated __lt__ of Element (order=True) compares the atomic numbers
Element_lt(a, b) == a < b

\* XrayLine(element, transitions, iupac, siegbahn, energy_eV) with the
\* element given as an atomic number: __post_init__ makes it an Element,
\* which raises ValueError out of range, and makes the transitions a tuple.
XrayLine_post_init(element, transitions, iupac, siegbahn, energy_eV) ==
    IF ~Element_post_init(element)
    THEN [raised |-> "ValueError"]
    ELSE [raised |-> "none", element |-> element, transitions |-> transitions,
          iupac |-> iupac, siegbahn |-> siegbahn, energy_eV |-> energy_eV]

\* the generated __eq__ of XrayLine covers the five fields
XrayLine_eq(a, b) == a = b

\* XrayLine.__lt__ between two XrayLine values
XrayLine_lt(a, b) ==
    Element_lt(a.element, b.element) /\ a.energy_eV < b.energy_eV

\* XrayLine.__gt__, which functools.total_ordering derives from __lt__ as
\* (not a < b) and (a != b)
XrayLine_gt(a, b) == ~XrayLine_lt(a, b) /\ ~XrayLine_eq(a, b)

\* ---------------------------------------------------- sql/command.py
\* SelectBuilder (pyxray/sql/command.py): an accumulator of
\* joins, filters and order-bys.  A filter is a sequence of alternatives
\* that compile to a disjunction.
EmptyBuilder == [joins |-> <<>>, wheres |-> <<>>, orderbys |-> <<>>]

add_join(b, table1, column1, table2, column2, alias) ==
    [b EXCEPT !.joins = Append(@, <<table1, column1, table2, column2, alias>>)]

add_where(b, alternatives) == [b EXCEPT !.wheres = Append(@, alternatives)]

add_orderby(b, table, column) == [b EXCEPT !.orderbys = Append(@, <<table, column>>)]

NumEq(table, column, value) ==
    <<[table |-> table, column |-> column, op |-> "=", num |-> value]>>

StrEq(table, column, value) ==
    <<[table |-> table, column |-> column, op |-> "=", str |-> value]>>

StrEq2(table1, column1, table2, column2, value) ==
    <<[table |-> table1, column |-> column1, op |-> "=", str |-> value],
      [table |-> table2, column |-> column2, op |-> "=", str |-> value]>>

\* ---------------------------------------------------------- the store
TKL2 == <<1, 0, 1, 2, 1, 1>>       \* K  -> L2
TKL3 == <<1, 0, 1, 2, 1, 3>>       \* K  -> L3
TBAD == <<1, 1, 1, 2, 1, 1>>       \* source l = 1 > n - 1 = 0

StoredTrans == {TKL2, TKL3}        \* rows of xray_transition
ReqTrans == StoredTrans \cup {TBAD}

\* rows of xray_transition_notation: the ascii and the utf16 name of a
\* stored transition (the dash of the utf16 name is written "~")
xray_transition_notation(t) ==
    IF t = TKL2
    THEN [ascii |-> <<"K", "-", "L", "2">>, utf16 |-> <<"K", "~", "L", "2">>]
    ELSE [ascii |-> <<"K", "-", "L", "3">>, utf16 |-> <<"K", "~", "L", "3">>]

Table == "xray_transitionset_energy"  \* the queried table of the caller
Column == "xray_transitionset_id"

Rows == [members : (SUBSET StoredTrans) \ {{}}, count : 1..Cardinality(StoredTrans)]

Stores ==
    UNION { { {[id |-> k, members |-> f[k].members, count |-> f[k].count] : k \in 1..n}
              : f \in [1..n -> Rows] }
            : n \in 0..MaxSets }

\* the value of column (table.column) of a stored transition row, through
\* the aliases _select_xray_transition joins
FieldOf(t, table, column) ==
    CASE table = "srcshell" /\ column = "principal_quantum_number" -> t[1]
      [] table = "srcsubshell" /\ column = "azimuthal_quantum_number" -> t[2]
      [] table = "srcsubshell" /\ column = "total_angular_momentum_nominator" -> t[3]
      [] table = "dstshell" /\ column = "principal_quantum_number" -> t[4]
      [] table = "dstsubshell" /\ column = "azimuthal_quantum_number" -> t[5]
      [] table = "dstsubshell" /\ column = "total_angular_momentum_nominator" -> t[6]
      [] table = "xray_transition_notation" /\ column = "ascii" ->
             xray_transition_notation(t).ascii
      [] table = "xray_transition_notation" /\ column = "utf16" ->
             xray_transition_notation(t).utf16

RowMatches(t, wheres) ==
    \A k \in 1..Len(wheres) :
        \E a \in 1..Len(wheres[k]) :
            FieldOf(t, wheres[k][a].table, wheres[k][a].column) =
                IF "num" \in DOMAIN wheres[k][a] THEN wheres[k][a].num
                ELSE wheres[k][a].str

\* cur.execute(sql, params); cur.fetchall() on the sub-query of
\* base.py:145-151: the (xray_transitionset_id, count) of every stored set
\* with a member transition that passes the filters.
fetchall(st, subbuilder) ==
    { <<s.id, s.count>> :
        s \in { r \in st : \E t \in r.members : RowMatches(t, subbuilder.wheres) } }

\* --------------------------------------------------------- sql/base.py
\* _expand_atomic_subshell on an AtomicSubshell instance, a sequence (a str
\* of three characters is one) or any other value.
_expand_atomic_subshell(x) ==
    IF x.kind = "AtomicSubshell" THEN x.q
    ELSE IF x.kind = "seq" /\ Len(x.q) = 3 THEN <<x.q[1], x.q[2], x.q[3]>>
    ELSE IF x.kind = "str" /\ Len(x.s) = 3 THEN <<x.s[1], x.s[2], x.s[3]>>
    ELSE <<0, -1, 0>>

\* _select_element: the builder after the call and what was raised.
_select_element(b, table, column, element) ==
    LET e == IF element.kind = "Element" THEN PyInt(element.z) ELSE element
    IN  IF e.kind = "str"
        THEN [raised |-> "none",
              builder |->
                add_where(
                  add_join(add_join(b, "element_name", "element_id", table, column, ""),
                           "element_symbol", "element_id", table, column, ""),
                  StrEq2("element_name", "name", "element_symbol", "symbol", e.s))]
        ELSE IF e.kind = "int"
        THEN [raised |-> "none",
              builder |->
                add_where(add_join(b, "element", "id", table, column, ""),
                          NumEq("element", "atomic_number", e.v))]
        ELSE [raised |-> "NotFound", builder |-> b]

\* _select_atomic_shell: the builder after the call and what was raised.
_select_atomic_shell(b, table, column, atomic_shell) ==
    LET e == IF atomic_shell.kind = "AtomicShell" THEN PyInt(atomic_shell.n)
             ELSE IF atomic_shell.kind = "AtomicSubshell" THEN PyInt(atomic_shell.q[1])
             ELSE atomic_shell
    IN  IF e.kind = "str"
        THEN [raised |-> "none",
              builder |->
                add_where(
                  add_join(b, "atomic_shell_notation", "atomic_shell_id", table, column, ""),
                  StrEq2("atomic_shell_notation", "ascii",
                         "atomic_shell_notation", "utf16", e.s))]
        ELSE IF e.kind = "int"
        THEN [raised |-> "none",
              builder |->
                add_where(add_join(b, "atomic_shell", "id", table, column, ""),
                          NumEq("atomic_shell", "principal_quantum_number", e.v))]
        ELSE [raised |-> "NotFound", builder |-> b]

\* _select_atomic_subshell: the builder after the call and what was raised.
_select_atomic_subshell(b, table, column, atomic_subshell) ==
    LET e == _expand_atomic_subshell(atomic_subshell)
        n == e[1]
        l == e[2]
        j_n == e[3]
        b1 == add_join(b, "atomic_subshell", "id", table, column, "")
        b2 == add_join(b1, "atomic_shell", "id", "atomic_subshell", "atomic_shell_id", "")
    IN  IF atomic_subshell.kind = "str"
        THEN [raised |-> "none",
              builder |->
                add_where(
                  add_join(b2, "atomic_subshell_notation", "atomic_subshell_id",
                           table, column, ""),
                  StrEq2("atomic_subshell_notation", "ascii",
                         "atomic_subshell_notation", "utf16", atomic_subshell.s))]
        ELSE IF n > 0 /\ l >= 0 /\ j_n > 0
        THEN [raised |-> "none",
              builder |->
                add_where(add_where(add_where(b2,
                  NumEq("atomic_shell", "principal_quantum_number", n)),
                  NumEq("atomic_subshell", "azimuthal_quantum_number", l)),
                  NumEq("atomic_subshell", "total_angular_momentum_nominator", j_n))]
        ELSE [raised |-> "NotFound", builder |-> b2]

\* _select_language on a Language instance or a str
_select_language(b, table, language) ==
    LET code == IF language.kind = "Language" THEN language.code ELSE language.s
    IN  [raised |-> "none",
         builder |-> add_where(add_join(b, "language", "id", table, "language_id", ""),
                               StrEq("language", "code", code))]

\* _select_notation on a Notation instance or a str
_select_notation(b, table, notation) ==
    LET name == IF notation.kind = "Notation" THEN notation.name ELSE notation.s
    IN  [raised |-> "none",
         builder |-> add_where(add_join(b, "notation", "id", table, "notation_id", ""),
                               StrEq("notation", "name", name))]

\* the two subshell-like values _select_xray_transition expands; of a str
\* of two characters or more, its first two characters
SubshellsOf(x) ==
    IF x.rep = "str"
    THEN <<PyStr(<<x.s[1]>>), PyStr(<<x.s[2]>>)>>
    ELSE IF x.rep = "obj"
    THEN <<AtomicSubshellObj(<<x.q[1], x.q[2], x.q[3]>>),
           AtomicSubshellObj(<<x.q[4], x.q[5], x.q[6]>>)>>
    ELSE <<PyTuple(<<x.q[1], x.q[2], x.q[3]>>),
           PyTuple(<<x.q[4], x.q[5], x.q[6]>>)>>

\* _select_xray_transition: the builder after the call and what was raised.
_select_xray_transition(b, table, column, x) ==
    IF x.rep = "obj" /\ ~(source_subshell_ok(x.q) /\ destination_subshell_ok(x.q))
    THEN [raised |-> "ValueError", builder |-> b]        \* from hasattr, line 92
    ELSE
    LET short == x.rep = "str" /\ Len(x.s) < 2       \* line 98: neither branch
        s == IF short THEN <<0, -1, 0>>
             ELSE _expand_atomic_subshell(SubshellsOf(x)[1])
        d == IF short THEN <<0, -1, 0>>
             ELSE _expand_atomic_subshell(SubshellsOf(x)[2])
        b1 == add_join(b, "xray_transition", "id", table, column, "")
        b2 == add_join(b1, "atomic_subshell", "id", "xray_transition",
                       "source_subshell_id", "srcsubshell")
        b3 == add_join(b2, "atomic_subshell", "id", "xray_transition",
                       "destination_subshell_id", "dstsubshell")
        b4 == add_join(b3, "atomic_shell", "id", "srcsubshell", "atomic_shell_id",
                       "srcshell")
        b5 == add_join(b4, "atomic_shell", "id", "dstsubshell", "atomic_shell_id",
                       "dstshell")
    IN  IF x.rep = "str"
        THEN [raised |-> "none",
              builder |->
                add_where(add_join(b5, "xray_transition_notation",
                                   "xray_transition_id", table, column, ""),
                          StrEq2("xray_transition_notation", "ascii",
                                 "xray_transition_notation", "utf16", x.s))]
        ELSE IF s[1] > 0 /\ s[2] >= 0 /\ s[3] > 0 /\ d[1] > 0 /\ d[2] >= 0 /\ d[3] > 0
        THEN [raised |-> "none",
              builder |->
                add_where(add_where(add_where(add_where(add_where(add_where(b5,
                  NumEq("srcshell", "principal_quantum_number", s[1])),
                  NumEq("srcsubshell", "azimuthal_quantum_number", s[2])),
                  NumEq("srcsubshell", "total_angular_momentum_nominator", s[3])),
                  NumEq("dstshell", "principal_quantum_number", d[1])),
                  NumEq("dstsubshell", "azimuthal_quantum_number", d[2])),
                  NumEq("dstsubshell", "total_angular_momentum_nominator", d[3]))]
        ELSE [raised |-> "NotFound", builder |-> b5]

\* base.py:144-149: the sub-query builder before the transition is resolved
SubBuilder ==
    add_join(EmptyBuilder, "xray_transitionset", "id",
             "xray_transitionset_association", "xray_transitionset_id", "")

\* base.py:150: resolving one requested item into the sub-query
SubSelect(x) ==
    _select_xray_transition(SubBuilder, "xray_transitionset_association", "id", x)

\* descriptor.py:178-182: XrayTransition.__repr__ reads source_subshell and
\* destination_subshell, which raise ValueError for fields that form no
\* subshell; the repr of a tuple of tuples raises nothing.
XrayTransition_repr_ok(x) ==
    x.rep = "obj" => source_subshell_ok(x.q) /\ destination_subshell_ok(x.q)

\* base.py:172: what raise NotFound('...{}'.format(xraytransitionset))
\* raises; formatting the argument takes the repr of each of its items.
RaiseNotFound(requested) ==
    IF \A x \in requested : XrayTransition_repr_ok(x) THEN "NotFound"
    ELSE "ValueError"

\* base.py:158-161
UpdatePossibilities(poss, idx, rows) ==
    IF idx = 0 THEN poss \cup rows ELSE poss \cap rows

\* the final loop without its comparison of the stored count
Matching_NoCardinality(poss, requested) == poss

\* base.py:166-167: the rows the final loop can return on
Matching(poss, requested) ==
    { p \in poss : p[2] = Cardinality(requested) }

\* base.py:168-169
Selected(b, table, column, xray_transitionset_id) ==
    add_where(add_join(b, "xray_transitionset", "id", table, column, ""),
              NumEq("xray_transitionset", "id", xray_transitionset_id))

\* base.py:136-138
SelectedNotation(b, table, column, s) ==
    add_where(add_join(b, "xray_transitionset_notation", "xray_transitionset_id",
                       table, column, ""),
              StrEq2("xray_transitionset_notation", "ascii",
                     "xray_transitionset_notation", "utf16", s))

\* _select_xray_transitionset as a function of the store, the builder and the
\* local set: every (outcome, builder) the call can end with, over the
\* iteration orders of the set.
RECURSIVE LoopResults(_, _, _, _)
LoopResults(st, rest, poss, idx) ==
    IF rest = {} THEN {[raised |-> "none", poss |-> poss]}
    ELSE UNION {
        IF SubSelect(x).raised # "none"
        THEN {[raised |-> SubSelect(x).raised, poss |-> poss]}
        ELSE LET p2 == UpdatePossibilities(poss, idx, fetchall(st, SubSelect(x).builder))
             IN  IF p2 = {} THEN {[raised |-> "none", poss |-> p2]}
                 ELSE LoopResults(st, rest \ {x}, p2, idx + 1)
        : x \in rest }

MatcherResults(st, b, requested) ==
    IF requested = {} THEN {[outcome |-> "NotFound", builder |-> b]}
    ELSE UNION {
        IF r.raised # "none" THEN {[outcome |-> r.raised, builder |-> b]}
        ELSE IF Matching(r.poss, requested) = {}
        THEN {[outcome |-> RaiseNotFound(requested), builder |-> b]}
        ELSE {[outcome |-> "ok", builder |-> Selected(b, Table, Column, p[1])]
                : p \in Matching(r.poss, requested)}
        : r \in LoopResults(st, requested, {}, 0) }

\* ------------------------------------------------- the calls modelled
\* the str requested: the utf16 name of K-L2, which matches the second
\* alternative of the notation filter for K-L2 and nothing for K-L3
ItemStrs == {xray_transition_notation(TKL2).utf16}

Items ==
    [rep : {"obj", "pair"}, q : StoredTrans] \cup [rep : {"obj"}, q : {TBAD}]
    \cup [rep : {"str"}, s : ItemStrs]

SeqsUpTo(S, n) == UNION { [1..k -> S] : k \in 0..n }

\* an XrayTransitionSet instance holds the deduplicated XrayTransition
\* instances of its possible_transitions (descriptor.py:200-210)
SetObjects ==
    { [kind |-> "setobj", members |-> m] :
        m \in { x \in SUBSET ReqTrans : x # {} /\ Cardinality(x) <= MaxReq } }

Args ==
    { [kind |-> "seq", items |-> sq] : sq \in SeqsUpTo(Items, MaxReq) }
    \cup SetObjects
    \cup { [kind |-> "str", s |-> "Ka"] }

NoArg == [kind |-> "none"]
NoSubshell == [args |-> <<>>, ok |-> FALSE]

InitIdle ==
    /\ arg = NoArg
    /\ pc = "idle"
    /\ xraytransitions = {}
    /\ todo = {}
    /\ i = 0
    /\ possibilities = {}
    /\ nqueries = 0
    /\ builder = EmptyBuilder
    /\ outcome = "none"
    /\ open_cursors = 0

InitDescriptor ==
    /\ src = NoSubshell
    /\ dst = NoSubshell
    /\ rad = "none"

NoObject == [kind |-> "none"]

InitObjects ==
    /\ call = "none"
    /\ made = NoObject

Finish(result, b) ==
    /\ pc' = "done"
    /\ outcome' = result
    /\ builder' = b

\* base.py:129-130: an XrayTransitionSet instance has no attribute
\* "transitions" (its field is possible_transitions), so the read raises.
CallSetObject(x) ==
    /\ pc = "idle" /\ x.kind = "setobj"
    /\ arg' = x
    /\ Finish("AttributeError", builder)
    /\ UNCHANGED <<store, xraytransitions, todo, i, possibilities, nqueries>>
    /\ UNCHANGED descriptorVars
    /\ UNCHANGED objectVars
    /\ UNCHANGED open_cursors

\* base.py:132-139: a str is a Sequence, its characters fill the local set,
\* and the notation join is emitted.
CallString(x) ==
    /\ pc = "idle" /\ x.kind = "str"
    /\ arg' = x
    /\ xraytransitions' = {[rep |-> "char", q |-> <<>>]}
    /\ Finish("ok", SelectedNotation(builder, Table, Column, x.s))
    /\ UNCHANGED <<store, todo, i, possibilities, nqueries>>
    /\ UNCHANGED descriptorVars
    /\ UNCHANGED objectVars
    /\ UNCHANGED open_cursors

\* base.py:132-133, 141, 172: an empty sequence falls through to the raise.
CallEmpty(x) ==
    /\ pc = "idle" /\ x.kind = "seq" /\ Range(x.items) = {}
    /\ arg' = x
    /\ xraytransitions' = {}
    /\ Finish(RaiseNotFound({}), builder)
    /\ UNCHANGED <<store, todo, i, possibilities, nqueries>>
    /\ UNCHANGED descriptorVars
    /\ UNCHANGED objectVars
    /\ UNCHANGED open_cursors

\* base.py:132-133, 141-142: a non-empty sequence enters the loop.
CallSequence(x) ==
    /\ pc = "idle" /\ x.kind = "seq" /\ Range(x.items) # {}
    /\ arg' = x
    /\ xraytransitions' = Range(x.items)
    /\ todo' = Range(x.items)
    /\ possibilities' = {}
    /\ i' = 0
    /\ pc' = "loop"
    /\ UNCHANGED <<store, nqueries, builder, outcome>>
    /\ UNCHANGED descriptorVars
    /\ UNCHANGED objectVars
    /\ UNCHANGED open_cursors

\* base.py:143-150: resolving the next item of the set raises.
SubQueryRaises ==
    /\ pc = "loop"
    /\ \E x \in todo :
        /\ SubSelect(x).raised # "none"
        /\ todo' = todo \ {x}
        /\ Finish(SubSelect(x).raised, builder)
    /\ UNCHANGED <<store, arg, xraytransitions, i, possibilities, nqueries>>
    /\ UNCHANGED descriptorVars
    /\ UNCHANGED objectVars
    /\ UNCHANGED open_cursors

\* base.py:153: connection.cursor() opens one more cursor
cursor(n) == n + 1

\* base.py:156: cur.close() closes one
close(n) == n - 1

\* base.py:143-164: one iteration of the loop, in the set's iteration order.
SubQuery ==
    /\ pc = "loop"
    /\ \E x \in todo :
        /\ SubSelect(x).raised = "none"
        /\ LET rows == fetchall(store, SubSelect(x).builder)
               poss == UpdatePossibilities(possibilities, i, rows)
           IN  /\ possibilities' = poss
               /\ todo' = todo \ {x}
               /\ pc' = IF poss = {} \/ todo \ {x} = {} THEN "select" ELSE "loop"
    /\ nqueries' = nqueries + 1
    /\ i' = i + 1
    /\ open_cursors' = close(cursor(open_cursors))
    /\ UNCHANGED <<store, arg, xraytransitions, builder, outcome>>
    /\ UNCHANGED descriptorVars
    /\ UNCHANGED objectVars

\* base.py:143-155: an iteration whose sub-query is built, and whose
\* cur.execute or cur.fetchall raises an error of the backend; the error
\* leaves the matcher from the line that raised it.
SubQueryFails ==
    /\ pc = "loop"
    /\ \E x \in todo :
        /\ SubSelect(x).raised = "none"
        /\ todo' = todo \ {x}
        /\ Finish("OperationalError", builder)
    /\ open_cursors' = cursor(open_cursors)
    /\ nqueries' = nqueries + 1
    /\ UNCHANGED <<store, arg, xraytransitions, i, possibilities>>
    /\ UNCHANGED descriptorVars
    /\ UNCHANGED objectVars

\* base.py:166-170: the first row with the requested count is selected.
SelectMatch ==
    /\ pc = "select"
    /\ \E p \in Matching(possibilities, xraytransitions) :
        Finish("ok", Selected(builder, Table, Column, p[1]))
    /\ UNCHANGED <<store, arg, xraytransitions, todo, i, possibilities, nqueries>>
    /\ UNCHANGED descriptorVars
    /\ UNCHANGED objectVars
    /\ UNCHANGED open_cursors

\* base.py:166-172: no row has the requested count.
SelectNotFound ==
    /\ pc = "select"
    /\ Matching(possibilities, xraytransitions) = {}
    /\ Finish(RaiseNotFound(xraytransitions), builder)
    /\ UNCHANGED <<store, arg, xraytransitions, todo, i, possibilities, nqueries>>
    /\ UNCHANGED descriptorVars
    /\ UNCHANGED objectVars
    /\ UNCHANGED open_cursors

Next ==
    \/ \E x \in Args : CallSetObject(x)
    \/ \E x \in Args : CallString(x)
    \/ \E x \in Args : CallEmpty(x)
    \/ \E x \in Args : CallSequence(x)
    \/ SubQueryRaises
    \/ SubQuery
    \/ SelectMatch
    \/ SelectNotFound

\* the matcher on a backend whose queries may fail
NextBackend ==
    \/ Next
    \/ SubQueryFails

\* ---------------------------------------- descriptor.py as operations
NValues == 0..MaxN
LValues == (0 - 1)..MaxN
JValues == 0..(2 * MaxN + 1)

\* AtomicSubshell(n, l, j_n) for the source
NewSource(n, l, j_n) ==
    /\ src = NoSubshell
    /\ src' = [args |-> <<n, l, j_n>>, ok |-> AtomicSubshell_post_init(n, l, j_n)]
    /\ rad' = "none"
    /\ UNCHANGED dst
    /\ UNCHANGED matcherVars
    /\ UNCHANGED objectVars

\* AtomicSubshell(n, l, j_n) for the destination
NewDestination(n, l, j_n) ==
    /\ src # NoSubshell /\ dst = NoSubshell
    /\ dst' = [args |-> <<n, l, j_n>>, ok |-> AtomicSubshell_post_init(n, l, j_n)]
    /\ rad' = "none"
    /\ UNCHANGED src
    /\ UNCHANGED matcherVars
    /\ UNCHANGED objectVars

\* XrayTransition.is_radiative(src, dst) on two constructed subshells
IsRadiativeCall ==
    /\ src.ok /\ dst.ok /\ rad = "none"
    /\ rad' = is_radiative(src.args, dst.args)
    /\ UNCHANGED <<src, dst>>
    /\ UNCHANGED matcherVars
    /\ UNCHANGED objectVars

NextValues ==
    \/ \E n \in NValues, l \in LValues, j_n \in JValues : NewSource(n, l, j_n)
    \/ \E n \in NValues, l \in LValues, j_n \in JValues : NewDestination(n, l, j_n)
    \/ IsRadiativeCall

\* ------------------------------------- descriptor.py: the constructors
CtorTriples == (1..MaxQ) \X (0..(MaxQ - 1)) \X (1..(2 * MaxQ - 1))

\* the shapes of arguments XrayTransition is called with
Forms == {"six", "seqs", "lists", "objs", "objseq", "objlist", "seqobj",
          "listobj", "src_only", "none"}

\* the positional arguments of one call for source s and destination d
FormArgs(form, s, d) ==
    CASE form = "six" -> <<PyInt(s[1]), PyInt(s[2]), PyInt(s[3]),
                           PyInt(d[1]), PyInt(d[2]), PyInt(d[3])>>
      [] form = "seqs" -> <<PyTuple(s), PyTuple(d)>>
      [] form = "lists" -> <<PyList(s), PyList(d)>>
      [] form = "objs" -> <<AtomicSubshellObj(s), AtomicSubshellObj(d)>>
      [] form = "objseq" -> <<AtomicSubshellObj(s), PyTuple(d)>>
      [] form = "objlist" -> <<AtomicSubshellObj(s), PyList(d)>>
      [] form = "seqobj" -> <<PyTuple(s), AtomicSubshellObj(d)>>
      [] form = "listobj" -> <<PyList(s), AtomicSubshellObj(d)>>
      [] form = "src_only" -> <<PyInt(s[1]), PyInt(s[2]), PyInt(s[3])>>
      [] form = "none" -> <<>>

\* an AtomicSubshell instance exists only for a triple that constructs
FormExists(form, s, d) ==
    /\ form \in {"objs", "objseq", "objlist"} => AtomicSubshell_post_init(s[1], s[2], s[3])
    /\ form \in {"objs", "seqobj", "listobj"} => AtomicSubshell_post_init(d[1], d[2], d[3])

\* XrayTransition(...) called twice for the same source and destination,
\* with arguments of shape form1 and of shape form2
NewXrayTransition ==
    /\ call = "none"
    /\ call' = "XrayTransition"
    /\ \E form1, form2 \in Forms, s, d \in CtorTriples :
        /\ FormExists(form1, s, d) /\ FormExists(form2, s, d)
        /\ made' = [kind |-> "XrayTransition",
                    source |-> s, destination |-> d,
                    forms |-> <<form1, form2>>,
                    values |-> <<XrayTransition_init(FormArgs(form1, s, d)),
                                 XrayTransition_init(FormArgs(form2, s, d))>>]
    /\ UNCHANGED matcherVars
    /\ UNCHANGED descriptorVars

TKL1 == <<1, 0, 1, 2, 0, 1>>       \* K  -> L1
TKM4 == <<1, 0, 1, 3, 2, 3>>       \* K  -> M4

\* an item of the collection given to XrayTransitionSet: an XrayTransition
\* instance, or a tuple to be unpacked into the constructor
ItemOf(form, t) ==
    LET s == <<t[1], t[2], t[3]>>
        d == <<t[4], t[5], t[6]>>
    IN  IF form = "inst"
        THEN [kind |-> "XrayTransition",
              fields |-> XrayTransition_init(FormArgs("six", s, d))]
        ELSE [kind |-> "tuple", args |-> FormArgs(form, s, d)]

SetItems ==
    { ItemOf(form, t) : form \in {"inst", "six", "seqs", "lists", "objs",
                                   "objseq", "objlist"},
                        t \in {TKL1, TKM4} }

InstItems == { ItemOf("inst", t) : t \in {TKL1, TKM4} }

\* XrayTransitionSet(in1) and XrayTransitionSet(in2), for a collection in1
\* of items of any shape and a collection in2 of instances
NewXrayTransitionSet ==
    /\ call = "none"
    /\ call' = "XrayTransitionSet"
    /\ \E in1 \in SeqsUpTo(SetItems, MaxReq), in2 \in SeqsUpTo(InstItems, MaxReq) :
         \E a \in XrayTransitionSet_post_init(in1),
            b \in XrayTransitionSet_post_init(in2) :
              made' = [kind |-> "XrayTransitionSet",
                       inputs |-> <<in1, in2>>, a |-> a, b |-> b]
    /\ UNCHANGED matcherVars
    /\ UNCHANGED descriptorVars

ZValues == (1 - ZMargin)..(118 + ZMargin)

\* Element(z)
NewElement ==
    /\ call = "none"
    /\ call' = "Element"
    /\ \E z \in ZValues :
         made' = [kind |-> "Element", z |-> z, ok |-> Element_post_init(z)]
    /\ UNCHANGED matcherVars
    /\ UNCHANGED descriptorVars

BibtexKeys == {"doe2016", "smith2018"}

\* keyword arguments of Reference: none, or one optional field
Givens ==
    {[f \in {} |-> PyNone]}
    \cup { [f \in {x} |-> PyStr(<<"D", "o", "e">>)] : x \in OptionalFields }

\* Reference(key1, **given1) and Reference(key2, **given2)
NewReference ==
    /\ call = "none"
    /\ call' = "Reference"
    /\ \E key1, key2 \in BibtexKeys, given1, given2 \in Givens :
         made' = [kind |-> "Reference",
                  a |-> Reference_init(key1, given1),
                  b |-> Reference_init(key2, given2)]
    /\ UNCHANGED matcherVars
    /\ UNCHANGED descriptorVars

\* atomic numbers of lines: none (0), Al, Cu
LineZ == {0, 13, 29}

\* energies of lines in eV: Cu La1, Al Ka1, Cu Ka1
LineEnergies == {930, 1486, 8047}

LineNames == {"K-L3", "K-L2"}

\* XrayLine(z1, ..., e1) and XrayLine(z2, ..., e2)
NewXrayLine ==
    /\ call = "none"
    /\ call' = "XrayLine"
    /\ \E z1, z2 \in LineZ, e1, e2 \in LineEnergies, n1, n2 \in LineNames :
         made' = [kind |-> "XrayLine",
                  a |-> XrayLine_post_init(z1, <<TKL3>>, n1, "Ka1", e1),
                  b |-> XrayLine_post_init(z2, <<TKL3>>, n2, "Ka1", e2)]
    /\ UNCHANGED matcherVars
    /\ UNCHANGED descriptorVars

NextObjects ==
    \/ NewXrayTransition
    \/ NewXrayTransitionSet
    \/ NewElement
    \/ NewReference
    \/ NewXrayLine

\* bool(value) as the if statement of base.py:192 takes it
Truthy(value) ==
    IF value.kind = "None" THEN FALSE
    ELSE IF value.kind = "str" THEN Len(value.s) > 0
    ELSE TRUE

\* _select_reference that orders by the reference key in both branches
_select_reference_AlwaysOrder(b, table, reference) ==
    LET r == IF reference.kind = "Reference" THEN PyStr(reference.bibtexkey)
             ELSE reference
        ordered == add_orderby(b, table, "reference_id")
    IN  IF Truthy(r)
        THEN [raised |-> "none",
              builder |-> add_where(add_join(ordered, "ref", "id", table, "reference_id", ""),
                                    StrEq("ref", "bibtexkey", r.s))]
        ELSE [raised |-> "none", builder |-> ordered]

\* _select_reference on a Reference instance, a str or None
_select_reference(b, table, reference) ==
    LET r == IF reference.kind = "Reference" THEN PyStr(reference.bibtexkey)
             ELSE reference
    IN  IF Truthy(r)
        THEN [raised |-> "none",
              builder |-> add_where(add_join(b, "ref", "id", table, "reference_id", ""),
                                    StrEq("ref", "bibtexkey", r.s))]
        ELSE [raised |-> "none",
              builder |-> add_orderby(b, table, "reference_id")]

\* ----------------------------------------- sql/base.py: the resolvers
Chars == {"e", "E", "n", "N"}
Strs == SeqsUpTo(Chars, MaxLen)

ResolverTriples == (0..MaxQ) \X ((0 - 1)..(MaxQ - 1)) \X (0..(2 * MaxQ - 1))

ElementArgs ==
    { [kind |-> "Element", z |-> z] : z \in {y \in ZValues : Element_post_init(y)} }
    \cup { PyInt(z) : z \in ZValues }
    \cup { PyStr(t) : t \in Strs }
    \cup { PyNone }

\* AtomicShell.__post_init__ lets an instance exist for n >= 1 only; an
\* AtomicSubshell instance has a principal_quantum_number as well
ShellArgs ==
    { [kind |-> "AtomicShell", n |-> n] : n \in 1..MaxQ }
    \cup { AtomicSubshellObj(<<2, 1, 1>>) }
    \cup { PyInt(n) : n \in (0 - 1)..MaxQ }
    \cup { PyStr(t) : t \in Strs }
    \cup { PyNone }

SubshellArgs ==
    { AtomicSubshellObj(q) :
        q \in {t \in ResolverTriples : AtomicSubshell_post_init(t[1], t[2], t[3])} }
    \cup { PyTuple(q) : q \in ResolverTriples }
    \cup { PyList(q) : q \in ResolverTriples }
    \cup { PyTuple(<<1, 0>>), PyInt(1), PyNone }
    \cup { PyStr(t) : t \in Strs }

TNEG == <<1, -1, 1, 2, 1, 1>>      \* source l = -1

TransitionArgs ==
    Items \cup [rep : {"pair"}, q : {TBAD, TNEG}] \cup [rep : {"str"}, s : Strs]

LanguageArgs ==
    { PyStr(t) : t \in Strs }
    \cup { [kind |-> "Language", code |-> Language_post_init(t).code] :
              t \in {u \in Strs : Language_post_init(u).raised = "none"} }

NotationArgs ==
    { PyStr(t) : t \in Strs }
    \cup { [kind |-> "Notation", name |-> Notation_post_init(t).name] :
              t \in {u \in Strs : Notation_post_init(u).raised = "none"} }

\* Reference validates nothing, so an instance exists for every key
ReferenceArgs ==
    { PyNone }
    \cup { PyStr(t) : t \in Strs }
    \cup { [kind |-> "Reference", bibtexkey |-> t] : t \in Strs }

\* a compound query: the builder may already hold an element filter
PriorBuilder == _select_element(EmptyBuilder, Table, "element_id", PyInt(26)).builder

InitResolvers ==
    /\ store = {}
    /\ arg = NoArg
    /\ pc = "idle"
    /\ xraytransitions = {}
    /\ todo = {}
    /\ i = 0
    /\ possibilities = {}
    /\ nqueries = 0
    /\ builder \in {EmptyBuilder, PriorBuilder}
    /\ outcome = "none"
    /\ open_cursors = 0
    /\ InitDescriptor
    /\ InitObjects

\* the end of a resolver call: it returned or raised
Resolve(name, x, result) ==
    /\ call' = name
    /\ arg' = x
    /\ Finish(IF result.raised = "none" THEN "ok" ELSE result.raised, result.builder)
    /\ UNCHANGED <<store, xraytransitions, todo, i, possibilities, nqueries>>
    /\ UNCHANGED descriptorVars
    /\ UNCHANGED made
    /\ UNCHANGED open_cursors

SelectElement(x) ==
    /\ pc = "idle"
    /\ Resolve("_select_element", x, _select_element(builder, Table, Column, x))

SelectAtomicShell(x) ==
    /\ pc = "idle"
    /\ Resolve("_select_atomic_shell", x, _select_atomic_shell(builder, Table, Column, x))

SelectAtomicSubshell(x) ==
    /\ pc = "idle"
    /\ Resolve("_select_atomic_subshell", x,
               _select_atomic_subshell(builder, Table, Column, x))

SelectXrayTransition(x) ==
    /\ pc = "idle"
    /\ Resolve("_select_xray_transition", x,
               _select_xray_transition(builder, Table, Column, x))

SelectLanguage(x) ==
    /\ pc = "idle"
    /\ Resolve("_select_language", x, _select_language(builder, Table, x))

SelectNotation(x) ==
    /\ pc = "idle"
    /\ Resolve("_select_notation", x, _select_notation(builder, Table, x))

SelectReference(x) ==
    /\ pc = "idle"
    /\ Resolve("_select_reference", x, _select_reference(builder, Table, x))

NextResolvers ==
    \/ \E x \in ElementArgs : SelectElement(x)
    \/ \E x \in ShellArgs : SelectAtomicShell(x)
    \/ \E x \in SubshellArgs : SelectAtomicSubshell(x)
    \/ \E x \in TransitionArgs : SelectXrayTransition(x)
    \/ \E x \in LanguageArgs : SelectLanguage(x)
    \/ \E x \in NotationArgs : SelectNotation(x)
    \/ \E x \in ReferenceArgs : SelectReference(x)

\* ------------------------------------------------------ specifications
Init == store \in Stores /\ InitIdle /\ InitDescriptor /\ InitObjects
Spec == Init /\ [][Next]_vars

InitValues == store = {} /\ InitIdle /\ InitDescriptor /\ InitObjects
SpecDescriptor == InitValues /\ [][NextValues]_vars

SpecObjects == InitValues /\ [][NextObjects]_vars

SpecResolvers == InitResolvers /\ [][NextResolvers]_vars

SpecBackend == Init /\ [][NextBackend]_vars

\* ------------------------------------------------------------- claims
\* the transitions a set of requested items denotes
TNONE == <<0, 0, 0, 0, 0, 0>>       \* stands for no transition at all

\* the transition an item denotes: its fields, or for a str the stored
\* transition of that name
ItemTrans(x) ==
    IF x.rep # "str" THEN x.q
    ELSE IF \E t \in StoredTrans : x.s \in {xray_transition_notation(t).ascii,
                                            xray_transition_notation(t).utf16}
    THEN CHOOSE t \in StoredTrans : x.s \in {xray_transition_notation(t).ascii,
                                             xray_transition_notation(t).utf16}
    ELSE TNONE

TransOf(items) == {ItemTrans(x) : x \in items}

\* every cached count is the number of members, and no two rows share members
StoreConsistent(st) ==
    /\ \A s \in st : s.count = Cardinality(s.members)
    /\ \A s1, s2 \in st : s1.members = s2.members => s1.id = s2.id

\* the stored set ids the builder filters on
FilterIds(b) ==
    { b.wheres[k][1].num :
        k \in { m \in 1..Len(b.wheres) :
                  /\ b.wheres[m][1].table = "xray_transitionset"
                  /\ b.wheres[m][1].column = "id" } }

\* the call was given a non-empty sequence naming each transition once
DistinctRequest ==
    /\ arg.kind = "seq"
    /\ Len(arg.items) > 0
    /\ Cardinality(TransOf(Range(arg.items))) = Len(arg.items)

\* the step machine and the function agree on how a sequence call ends
StepsAgree ==
    pc = "done" /\ arg.kind = "seq" =>
        [outcome |-> outcome, builder |-> builder]
            \in MatcherResults(store, EmptyBuilder, Range(arg.items))

\* C1: on a consistent store (counts equal the numbers of members, no two
\* rows with the same members), a finished call on a non-empty sequence of
\* distinct transitions T has added a filter on stored set id s exactly
\* when the members of s are T; supersets and subsets are not selected.
C1_ExactMatch ==
    pc = "done" /\ StoreConsistent(store) /\ DistinctRequest =>
        /\ FilterIds(builder) \subseteq {s.id : s \in store}
        /\ \A s \in store :
            s.id \in FilterIds(builder) <=> s.members = TransOf(xraytransitions)

\* C1 witness: a stored strict superset of T is passed over for the row
\* whose members are exactly T.
C1_Witness ==
    /\ pc = "done" /\ StoreConsistent(store) /\ DistinctRequest
    /\ outcome = "ok"
    /\ \E s, t \in store :
        /\ s.members = TransOf(xraytransitions)
        /\ s.members \subseteq t.members /\ s.members # t.members
        /\ FilterIds(builder) = {s.id}

\* C2: when more than one row is left after the intersection and the
\* cardinality filter, the call ends with AmbiguousMatch and the builder is
\* left as it was.
C2_AmbiguousMatch ==
    /\ pc = "done" /\ arg.kind = "seq"
    /\ Cardinality(Matching(possibilities, xraytransitions)) > 1
    => outcome = "AmbiguousMatch" /\ builder = EmptyBuilder

\* C3: the cardinality compared with the stored count is the number of
\* distinct transitions requested, whatever representations name them.
C3_DistinctTransitionCount ==
    pc \in {"loop", "select", "done"} /\ arg.kind = "seq" =>
        Cardinality(xraytransitions) = Cardinality(TransOf(Range(arg.items)))

\* C4: a call given an XrayTransitionSet instance ends as a call given the
\* sequence of its member transitions can end.
C4_ObjectAsSequence ==
    pc = "done" /\ arg.kind = "setobj" =>
        [outcome |-> outcome, builder |-> builder]
            \in MatcherResults(store, EmptyBuilder,
                               {[rep |-> "obj", q |-> t] : t \in arg.members})

\* C5: a call given an empty collection ends with the validation error
\* (ValueError), not NotFound, and executes no sub-query.
C5_EmptyIsValidationError ==
    pc = "done" /\ arg.kind = "seq" /\ Len(arg.items) = 0 =>
        outcome = "ValueError" /\ nqueries = 0

\* a requested transition that is a member of no stored set
Absent(q, st) == \A s \in st : q \notin s.members

\* one step keeps the short-circuit: with the candidate set empty after a
\* sub-query, the step runs no sub-query and ends the call with NotFound
ShortCircuitStep ==
    pc \in {"loop", "select"} /\ nqueries > 0 /\ possibilities = {} =>
        nqueries' = nqueries /\ pc' = "done" /\ outcome' = "NotFound"

\* one step that ends a call requesting a transition of no stored set ends
\* it with NotFound
AbsentStep ==
    /\ pc' = "done" /\ pc # "done" /\ arg'.kind = "seq"
    /\ \E x \in xraytransitions' : Absent(ItemTrans(x), store')
    => outcome' = "NotFound"

\* with the candidate set empty after a sub-query, the step runs no
\* sub-query and ends the call, with what line 172 raises
NoFurtherQueryStep ==
    pc \in {"loop", "select"} /\ nqueries > 0 /\ possibilities = {} =>
        /\ nqueries' = nqueries /\ pc' = "done"
        /\ outcome' = RaiseNotFound(xraytransitions)

\* C6, the short-circuit alone: once the candidate set is empty after a
\* sub-query, no further sub-query runs and the call ends.
ShortCircuit == [][NoFurtherQueryStep]_vars

\* C6: the matcher short-circuits on an empty candidate set, and a call that
\* requests a transition belonging to no stored set ends with NotFound.
C6_ShortCircuitNotFound == [][ShortCircuitStep /\ AbsentStep]_vars

\* the subshell invariants of the data model: 0 <= l <= n - 1 and
\* 2j one of 2l - 1, 2l + 1, non-negative
ValidSubshell(t) ==
    /\ 0 <= t[2] /\ t[2] <= t[1] - 1
    /\ t[3] \in {2 * t[2] - 1, 2 * t[2] + 1}
    /\ t[3] >= 0

\* the selection rule as the claim states it
RadiativeRule(a, b) ==
    /\ a[1] # b[1]
    /\ \/ Abs(b[3] - a[3]) <= 2 /\ Abs(b[2] - a[2]) = 1
       \/ /\ Abs(b[3] - a[3]) <= 4
          /\ Abs(b[2] - a[2]) \in {0, 2}
          /\ ~(a[3] = 1 /\ b[3] = 1)

\* C7: for valid subshells src and dst, is_radiative(src, dst) returns True
\* exactly when n differs and the dipole or the quadrupole rule permits the
\* transition, and False otherwise.
C7_RadiativeRule ==
    rad # "none" /\ ValidSubshell(src.args) /\ ValidSubshell(dst.args) =>
        rad = IF RadiativeRule(src.args, dst.args) THEN "True" ELSE "False"

\* C7 witness: a quadrupole transition (l changes by 2) was found radiative.
C7_Witness ==
    /\ rad = "True"
    /\ ValidSubshell(src.args) /\ ValidSubshell(dst.args)
    /\ Abs(dst.args[2] - src.args[2]) = 2

\* C8: is_radiative returns a boolean for every pair of subshells that
\* construct; no assertion inside it fails.
C8_Total == rad \in {"none", "True", "False"}

\* C9 as stated: wherever is_radiative is called, some pair of subshells
\* that construct distinguishes the two directions, is_radiative(K, L2)
\* holds and is_radiative(L2, L3) does not.
C9_Directional ==
    rad # "none" =>
    /\ \E a, b \in {t \in NValues \X LValues \X JValues :
                      AtomicSubshell_post_init(t[1], t[2], t[3])} :
           is_radiative(a, b) # is_radiative(b, a)
    /\ is_radiative(<<1, 0, 1>>, <<2, 1, 1>>) = "True"
    /\ is_radiative(<<2, 1, 1>>, <<2, 1, 3>>) = "False"

\* C9 amended: is_radiative is symmetric: the call on (src, dst) ends as
\* the call on (dst, src) does; it is True on (K, L2), False on (L2, L3).
C9_Symmetric ==
    rad # "none" =>
        /\ rad = is_radiative(dst.args, src.args)
        /\ src.args = <<1, 0, 1>> /\ dst.args = <<2, 1, 1>> => rad = "True"
        /\ src.args = <<2, 1, 1>> /\ dst.args = <<2, 1, 3>> => rad = "False"

\* C9 witness: the call on (L2, K), the reverse of (K, L2), returned True.
C9_Witness ==
    rad = "True" /\ src.args = <<2, 1, 1>> /\ dst.args = <<1, 0, 1>>

\* C10: AtomicSubshell(n, l, 2j) constructs exactly when 0 <= l <= n - 1
\* and 2j is one of 2l - 1, 2l + 1 and non-negative.
C10_ConstructsIffValid ==
    /\ src # NoSubshell => (src.ok <=> ValidSubshell(src.args))
    /\ dst # NoSubshell => (dst.ok <=> ValidSubshell(dst.args))

\* the fields are six integers forming two subshells that construct
FieldsValid(t) ==
    /\ \A k \in 1..6 : t[k].kind = "int"
    /\ AtomicSubshell_post_init(t[1].v, t[2].v, t[3].v)
    /\ AtomicSubshell_post_init(t[4].v, t[5].v, t[6].v)

\* C11: every XrayTransition value that was constructed holds six quantum
\* numbers forming a source and a destination subshell that satisfy the
\* AtomicSubshell invariants; a call with invalid or missing numbers
\* produces no value.
C11_TransitionValidated ==
    made.kind = "XrayTransition" => FieldsValid(made.values[1])

\* the two calls were given six numbers, two sequences or two instances
UniformFormsAgree ==
    /\ made.kind = "XrayTransition"
    /\ made.forms[1] \in {"six", "seqs", "lists", "objs"}
    /\ made.forms[2] \in {"six", "seqs", "lists", "objs"}
    => XrayTransition_eq(made.values[1], made.values[2])

\* C12: two XrayTransition values built for the same source and destination
\* are equal (and so hash alike), whichever of the shapes built them: six
\* numbers, two sequences, two AtomicSubshell instances, or one instance
\* and one sequence in either order.
C12_RepresentationIndependent ==
    /\ made.kind = "XrayTransition"
    /\ made.forms[1] \in Forms \ {"src_only", "none"}
    /\ made.forms[2] \in Forms \ {"src_only", "none"}
    => XrayTransition_eq(made.values[1], made.values[2])

\* the members of a constructed XrayTransitionSet, as a set
Members(r) == Range(r.possible_transitions)

\* C13: two XrayTransitionSet values constructed from collections with the
\* same distinct transitions are equal (and so hash alike), whatever the
\* order and the repetitions in the collections.
C13_SetEquality ==
    /\ made.kind = "XrayTransitionSet"
    /\ made.a.raised = "none" /\ made.b.raised = "none"
    /\ Members(made.a) = Members(made.b)
    => XrayTransitionSet_eq(made.a, made.b)

\* the six quantum numbers an item given as an instance, as six numbers, as
\* two sequences or as two AtomicSubshell instances stands for
Denoted(item) ==
    LET a == IF item.kind = "XrayTransition" THEN item.fields ELSE item.args
    IN  IF a[1].kind = "int" THEN <<a[1].v, a[2].v, a[3].v, a[4].v, a[5].v, a[6].v>>
        ELSE <<a[1].q[1], a[1].q[2], a[1].q[3], a[2].q[1], a[2].q[2], a[2].q[3]>>

\* the item is an instance, six numbers, two sequences or two instances
UniformItem(item) ==
    \/ item.kind = "XrayTransition"
    \/ item.args[1].kind = "int"
    \/ item.args[1].kind = item.args[2].kind

\* C14: XrayTransitionSet(collection) raises ValueError exactly when the
\* collection is empty; a constructed set holds at least one member, no member twice, and
\* exactly the XrayTransition values of its items, so that instances, raw
\* tuples and subshell pairs standing for one transition are one member.
C14_NonEmptyDeduplicated ==
    made.kind = "XrayTransitionSet" =>
        LET input == made.inputs[1]
            t == made.a.possible_transitions
        IN  /\ made.a.raised = "ValueError" <=> Len(input) = 0
            /\ made.a.raised = "none" =>
                /\ Len(t) >= 1
                /\ \A m, n \in 1..Len(t) : t[m] = t[n] => m = n
                /\ Range(t) = { Coerce(x) : x \in Range(input) }
                /\ \A x \in Range(input) : UniformItem(x) =>
                       \A k \in 1..6 : Coerce(x)[k] = PyInt(Denoted(x)[k])
                /\ (\A x \in Range(input) : UniformItem(x)) =>
                       Len(t) = Cardinality({ Denoted(x) : x \in Range(input) })

\* C14 witness: the same transition given as six raw numbers and as a pair
\* of sequences became one member.
C14_Witness ==
    /\ made.kind = "XrayTransitionSet"
    /\ made.a.raised = "none"
    /\ Len(made.inputs[1]) = 2
    /\ made.inputs[1][1] = ItemOf("six", TKL1)
    /\ made.inputs[1][2] = ItemOf("seqs", TKL1)
    /\ Len(made.a.possible_transitions) = 1

\* C15: Element(Z) constructs exactly when 1 <= Z <= 118; for every other
\* integer it raises ValueError and no Element exists.
C15_ElementRange ==
    made.kind = "Element" => (made.ok <=> (1 <= made.z /\ made.z <= 118))

\* C15 witness: Element(119) was tried and failed.
C15_Witness == made.kind = "Element" /\ made.z = 119 /\ ~made.ok

\* C16: two Reference values with the same bibtexkey are equal (and so hash
\* alike), whatever their optional fields hold.
C16_KeyIdentity ==
    made.kind = "Reference" /\ made.a.bibtexkey = made.b.bibtexkey =>
        Reference_eq(made.a, made.b)

\* what a call added to the builder b0 to leave it as b1
Emitted(b0, b1) ==
    [joins |-> SubSeq(b1.joins, Len(b0.joins) + 1, Len(b1.joins)),
     wheres |-> SubSeq(b1.wheres, Len(b0.wheres) + 1, Len(b1.wheres)),
     orderbys |-> SubSeq(b1.orderbys, Len(b0.orderbys) + 1, Len(b1.orderbys))]

\* the numeric path alone: the joins on the subshell and shell tables and
\* the three equality filters on n, l, 2j
NumericOnly(e) ==
    /\ e.joins = <<<<"atomic_subshell", "id", Table, Column, "">>,
                   <<"atomic_shell", "id", "atomic_subshell", "atomic_shell_id", "">>>>
    /\ Len(e.wheres) = 3
    /\ e.wheres =
         <<NumEq("atomic_shell", "principal_quantum_number", e.wheres[1][1].num),
           NumEq("atomic_subshell", "azimuthal_quantum_number", e.wheres[2][1].num),
           NumEq("atomic_subshell", "total_angular_momentum_nominator",
                 e.wheres[3][1].num)>>

\* the notation path alone: the join and the filter on the notation table
NotationOnly(e, label) ==
    /\ e.joins = <<<<"atomic_subshell_notation", "atomic_subshell_id",
                     Table, Column, "">>>>
    /\ e.wheres = <<StrEq2("atomic_subshell_notation", "ascii",
                            "atomic_subshell_notation", "utf16", label)>>

C17Step ==
    call = "none" /\ call' = "_select_atomic_subshell" =>
        \/ outcome' = "NotFound"
        \/ outcome' = "ok" /\ NumericOnly(Emitted(builder, builder'))
        \/ /\ outcome' = "ok" /\ arg'.kind = "str"
           /\ NotationOnly(Emitted(builder, builder'), arg'.s)

\* C17: a call of the subshell resolver adds the numeric path alone, or the
\* notation path alone, or raises NotFound; it never adds parts of both
\* paths and never returns without having added one of them.
C17_ExactlyOnePath == [][C17Step]_vars

C18Step ==
    call = "none" /\ call' # "none" /\ outcome' # "ok" => builder' = builder

\* C18: a resolver call that raises leaves the builder with exactly the
\* joins, filters and order-bys it held before the call.
C18_RaiseLeavesBuilder == [][C18Step]_vars

C19Step ==
    /\ call = "none"
    /\ \/ /\ call' = "_select_element" /\ arg'.kind = "int"
          /\ ~Element_post_init(arg'.v)
       \/ /\ call' = "_select_atomic_subshell" /\ arg'.kind = "seq"
          /\ Len(arg'.q) = 3
          /\ ~AtomicSubshell_post_init(arg'.q[1], arg'.q[2], arg'.q[3])
    => /\ outcome' = "ValueError"
       /\ Emitted(builder, builder').wheres = <<>>

\* C19: an integer atomic number outside [1, 118], or a triple (n, l, 2j)
\* that AtomicSubshell rejects, makes its resolver raise the validation
\* error (ValueError), and no filter is added for it.
C19_InvalidRawRejected == [][C19Step]_vars

C20Step ==
    /\ call = "none" /\ call' = "_select_notation" /\ arg'.kind = "str"
       /\ Notation_post_init(arg'.s).raised = "none"
       => builder' = _select_notation(builder, Table,
                        [kind |-> "Notation",
                         name |-> Notation_post_init(arg'.s).name]).builder
    /\ call = "none" /\ call' = "_select_language" /\ arg'.kind = "str"
       /\ Language_post_init(arg'.s).raised = "none"
       => builder' = _select_language(builder, Table,
                        [kind |-> "Language",
                         code |-> Language_post_init(arg'.s).code]).builder

\* C20: resolving a Notation or Language given as a str leaves the builder
\* as resolving the Notation(str) or Language(str) instance does: the same
\* join and the same filter value, whatever the letter case of the str.
C20_BareStringCanonical == [][C20Step]_vars

\* the key the reference argument carries: the str itself, the bibtexkey
\* of a Reference instance, nothing for None
KeyOf(reference) ==
    IF reference.kind = "Reference" THEN reference.bibtexkey
    ELSE IF reference.kind = "str" THEN reference.s
    ELSE <<>>

C21Step ==
    call = "none" /\ call' = "_select_reference" =>
        /\ outcome' = "ok"
        /\ Emitted(builder, builder') =
             IF KeyOf(arg') = <<>>
             THEN [joins |-> <<>>, wheres |-> <<>>,
                   orderbys |-> <<<<Table, "reference_id">>>>]
             ELSE [joins |-> <<<<"ref", "id", Table, "reference_id", "">>>>,
                   wheres |-> <<StrEq("ref", "bibtexkey", KeyOf(arg'))>>,
                   orderbys |-> <<>>]

\* C21: the reference resolver given None or an empty key adds exactly one
\* order-by on the queried table's reference_id and no join or filter;
\* given a key, as a str or in a Reference instance, it adds the join on
\* ref and one equality filter on bibtexkey, and no order-by.
C21_ReferenceModes == [][C21Step]_vars

\* C21 witness: the resolver was given None and the builder, which held an
\* element filter, gained one order-by and nothing else.
C21_Witness ==
    /\ call = "_select_reference" /\ arg = PyNone
    /\ builder = add_orderby(PriorBuilder, Table, "reference_id")

\* C23: every cursor the matcher opened for a sub-query is closed when the
\* matcher has returned or raised, also when executing the sub-query or
\* fetching its rows raised a backend error.
C23_CursorsClosed == pc = "done" => open_cursors = 0

\* C24: for two XrayLine values a and b, a < b and b < a never both hold,
\* and a > b and b > a never both hold.
C24_OrderingConsistent ==
    /\ made.kind = "XrayLine"
    /\ made.a.raised = "none" /\ made.b.raised = "none"
    => /\ ~(XrayLine_lt(made.a, made.b) /\ XrayLine_lt(made.b, made.a))
       /\ ~(XrayLine_gt(made.a, made.b) /\ XrayLine_gt(made.b, made.a))

====
